---- MODULE Spec2Model ----
(***************************************************************************)
(* A model of the walking simulation: the player's footprint trail         *)
(* (Penguin), the ground height formulas (Penguin, Environment and the     *)
(* ground vertex shader) and the background colony (ColonyPenguin,         *)
(* ColonyManager).                                                         *)
(*                                                                         *)
(* Numbers are fixed point with three decimals: lengths in 1/1000 of a     *)
(* world unit, angles in milliradians, times in milliseconds, opacities    *)
(* and random draws in 1/1000.  A product of two such numbers is divided   *)
(* by Milli.  The JavaScript objects are a heap: a footprint mesh is an    *)
(* identity (its spawn number) and the trail and the scene hold            *)
(* references to it.                                                       *)
(***************************************************************************)
EXTENDS Integers, Sequences, FiniteSets, TLC

VARIABLES
    footprints,        \* Penguin.footprints: the trail, a sequence of mesh references
    material,          \* per created footprint mesh: its material's opacity, dispose() and scene.remove() calls
    scene,             \* the footprint meshes that are children of the scene
    nextId,            \* the number the next created footprint mesh gets
    footprintTexture,  \* Penguin.footprintTexture is set (the image callback has run)
    footprintNormal,   \* Penguin.footprintNormal is set
    sampleX,           \* the world coordinate the three ground heights were last taken at
    sampleZ,
    penguinH,          \* Penguin.getGroundHeight there
    envH,              \* Environment.getGroundHeight there
    meshH,             \* the ground vertex shader's displacement there
    mountainVertex,    \* a vertex of a mountain mesh as createMountainMesh leaves it
    penguins,          \* ColonyManager.penguins: the agents, in update order
    managerColonyCenter, \* ColonyManager.colonyCenter, the vector every agent's update is handed
    frame,             \* the number of update calls on the colony so far
    lastUpdate,        \* the arguments of the last ColonyManager.update call
    pickArgs,          \* the agent and the random draws pickNewState was last applied to
    pickResult,        \* the agent pickNewState made of them
    body,              \* Penguin.body is set (the model has loaded)
    walkTime,          \* Penguin.walkTime, a number
    lastStepTime,      \* Penguin.lastStepTime, a number
    isLeftStep,        \* Penguin.isLeftStep
    penguinPosition,   \* Penguin.position (= mesh.position), a vector of numbers
    inputForward,      \* App.input.forward
    walked,            \* the time of the frames in which the player moved with model and textures loaded
    audioManager,      \* the fields of the AudioManager, and how often and after how much time it played
    app                \* the fields of the App beside its input

trailVars == <<footprints, material, scene, nextId, footprintTexture, footprintNormal>>
heightVars == <<sampleX, sampleZ, penguinH, envH, meshH, mountainVertex>>
colonyVars == <<penguins, managerColonyCenter, frame, lastUpdate>>
pickVars == <<pickArgs, pickResult>>
playerVars == <<body, walkTime, lastStepTime, isLeftStep, penguinPosition, inputForward, walked,
                audioManager, app>>
vars == <<trailVars, heightVars, colonyVars, pickVars, playerVars>>

Milli == 10 ^ 3

----------------------------------------------------------------------------
(* Arithmetic of the platform: Math.sin, Math.cos, Math.sqrt, Math.abs.    *)

Abs(a) == IF a < 0 THEN -a ELSE a

\* a / b, rounded toward zero
Div(a, b) == IF a >= 0 THEN a \div b ELSE -((-a) \div b)

\* a * b of two fixed-point numbers
Mul(a, b) == Div(a * b, Milli)

RECURSIVE SqrtBetween(_, _, _)
SqrtBetween(n, lo, hi) ==
    IF lo >= hi THEN lo
    ELSE LET mid == (lo + hi + 1) \div 2
         IN IF mid * mid <= n THEN SqrtBetween(n, mid, hi)
                              ELSE SqrtBetween(n, lo, mid - 1)

\* the integer square root of n >= 0
Isqrt(n) == SqrtBetween(n, 0, 46340)

\* the length of the vector (a, b, c)
Length3(a, b, c) == Isqrt(a * a + b * b + c * c)

PiMilli == 3142
HalfPiMilli == 1571
TwoPiMicro == 6283185

\* sin of an angle in [0, pi/2], by its Taylor polynomial
SinQuadrant(y) ==
    LET y2 == Mul(y, y)
        y3 == Mul(y, y2)
        y5 == Mul(y3, y2)
        y7 == Mul(y5, y2)
        y9 == Mul(y7, y2)
    IN y - (y3 \div 6) + (y5 \div 120) - (y7 \div 5040) + (y9 \div 362880)

Sin(a) ==
    LET r == ((a * Milli) % TwoPiMicro) \div Milli
    IN IF r <= HalfPiMilli THEN SinQuadrant(r)
       ELSE IF r <= PiMilli THEN SinQuadrant(PiMilli - r)
       ELSE IF r <= PiMilli + HalfPiMilli THEN -SinQuadrant(r - PiMilli)
       ELSE -SinQuadrant(2 * PiMilli - r)

Cos(a) == Sin(a + HalfPiMilli)

----------------------------------------------------------------------------
(* Ground height: Penguin.getGroundHeight, Environment.getGroundHeight and *)
(* the vertex shader of the ground material.                               *)

\* new THREE.Vector2(1.0, 0.5).normalize()
NormalizedWindDir ==
    LET len == Isqrt(Milli * Milli + 500 * 500)
    IN [x |-> (Milli * Milli) \div len, y |-> (500 * Milli) \div len]

\* the shader's vec2 windDir = vec2(1.0, 0.5)
ShaderWindDir == [x |-> Milli, y |-> 500]

PenguinGetGroundHeight(x, z) ==
    LET windDir == NormalizedWindDir
        windCoord == Mul(x, windDir.x) + Mul(z, windDir.y)
        perpCoord == Mul(x, -windDir.y) + Mul(z, windDir.x)
    IN Mul(Mul(Sin(Mul(x, 50)), Cos(Mul(z, 40))), 400)
       + Mul(Sin(Mul(x, 20)), 200)
       + Mul(Mul(Sin(Mul(windCoord, 500)), Sin(perpCoord * 5)), 50)
       + Mul(Sin(Mul(windCoord, 200)), 100)

EnvGetGroundHeight(x, z) ==
    LET windDir == NormalizedWindDir
        windCoord == Mul(x, windDir.x) + Mul(z, windDir.y)
        perpCoord == Mul(x, -windDir.y) + Mul(z, windDir.x)
    IN Mul(Mul(Sin(Mul(x, 50)), Cos(Mul(z, 40))), 400)
       + Mul(Sin(Mul(x, 20)), 200)
       + Mul(Mul(Sin(Mul(windCoord, 500)), Sin(perpCoord * 5)), 50)
       + Mul(Sin(Mul(windCoord, 200)), 100)

\* the displacement h the vertex shader adds at the world position (x, ., z)
ShaderHeight(x, z) ==
    LET windDir == ShaderWindDir
        windCoord == Mul(x, windDir.x) + Mul(z, windDir.y)
        perpCoord == Mul(x, -windDir.y) + Mul(z, windDir.x)
    IN Mul(Mul(Sin(Mul(x, 50)), Cos(Mul(z, 40))), 400)
       + Mul(Sin(Mul(x, 20)), 200)
       + Mul(Mul(Sin(Mul(windCoord, 500)), Sin(perpCoord * 5)), 50)
       + Mul(Sin(Mul(windCoord, 200)), 100)

----------------------------------------------------------------------------
(* The footprint trail: Penguin.spawnFootprint and Penguin.updateFootprints *)

MaxFootprints == 200

\* (mutant) the footprint left at the height of the given position
NewFootprintAtFoot(position, isLeft) ==
    [opacity |-> Milli,
     x |-> position.x,
     y |-> position.y + 30,
     z |-> position.z,
     rotZ |-> (IF isLeft THEN 200 ELSE -200) + PiMilli,
     removals |-> 0,
     disposals |-> 0]

\* the mesh and material spawnFootprint creates for a foot at `position`
NewFootprint(position, isLeft) ==
    [opacity |-> Milli,
     x |-> position.x,
     y |-> PenguinGetGroundHeight(position.x, position.z) + 30,
     z |-> position.z,
     rotZ |-> (IF isLeft THEN 200 ELSE -200) + PiMilli,
     removals |-> 0,
     disposals |-> 0]

\* this.scene.remove(fp) and material.dispose() of the mesh fp
Discard(mat, fp) ==
    [mat EXCEPT ![fp].removals = @ + 1, ![fp].disposals = @ + 1]

\* (mutant) the fade at a tenth of the rate
FadedOpacitySlow(opacity, dt) == opacity - (dt * 2) \div Milli

\* material.opacity -= dt * 0.02
FadedOpacity(opacity, dt) == opacity - (dt * 20) \div Milli

\* (mutant) a footprint at exactly 0 is kept
IsFadedOutStrict(opacity) == opacity < 0

\* material.opacity <= 0
IsFadedOut(opacity) == opacity <= 0

\* (mutant) splice(i): everything from index i on is taken out
SpliceToEnd(seq, i) == SubSeq(seq, 1, i - 1)

\* this.footprints.splice(i, 1)
Splice(seq, i) == SubSeq(seq, 1, i - 1) \o SubSeq(seq, i + 1, Len(seq))

\* one iteration of the loop of updateFootprints, for index i; st is the
\* trail, the materials and the scene so far
FadeAt(i, st, dt) ==
    LET fp == st.footprints[i]
        opacity == FadedOpacity(st.material[fp].opacity, dt)
        faded == [st.material EXCEPT ![fp].opacity = opacity]
    IN IF IsFadedOut(opacity)
       THEN [st EXCEPT !.footprints = Splice(st.footprints, i),
                       !.material = Discard(faded, fp),
                       !.scene = st.scene \ {fp}]
       ELSE [st EXCEPT !.material = faded]

\* the iterations of the loop for i = hi, hi - 1, ..., lo, in that order
\* (the upper half of the indices before the lower half; the trail so far is
\* read first, so that the halves are evaluated one after the other)
RECURSIVE FadeRange(_, _, _, _)
FadeRange(lo, hi, st, dt) ==
    IF hi < lo \/ hi > Len(st.footprints) THEN st
    ELSE IF lo = hi THEN FadeAt(lo, st, dt)
    ELSE LET mid == (lo + hi) \div 2
             upper == FadeRange(mid + 1, hi, st, dt)
         IN FadeRange(lo, mid, upper, dt)

\* (mutant) the loop run while i > 0: the oldest footprint is passed over
LoopIndicesAboveZero(len) == [first |-> len, last |-> 2]

\* for (let i = this.footprints.length - 1; i >= 0; i--)
LoopIndices(len) == [first |-> len, last |-> 1]

\* the trail, the materials, the scene and the count of created meshes
TrailState == [footprints |-> footprints, material |-> material, scene |-> scene, nextId |-> nextId]

\* (mutant) a frame time above 20 s counted as 20 s
DecayedCapped(st, dt) ==
    LET idx == LoopIndices(Len(st.footprints))
    IN FadeRange(idx.last, idx.first, st, IF dt > 20 * Milli THEN 20 * Milli ELSE dt)

\* the trail st after the loop of updateFootprints
Decayed(st, dt) ==
    LET idx == LoopIndices(Len(st.footprints))
    IN FadeRange(idx.last, idx.first, st, dt)

UpdateFootprints(dt) ==
    LET st == Decayed(TrailState, dt)
    IN /\ footprints' = st.footprints
       /\ material' = st.material
       /\ scene' = st.scene
       /\ UNCHANGED <<nextId, footprintTexture, footprintNormal>>

\* (mutant) the limit checked one too late
OverCapacityLate(len) == len > MaxFootprints + 1

\* this.footprints.length > 200
OverCapacity(len) == len > MaxFootprints

\* (mutant) pop() in place of shift(): the newest is taken out
ShiftNewest(seq) == [old |-> seq[Len(seq)], rest |-> SubSeq(seq, 1, Len(seq) - 1)]

\* this.footprints.shift(): the element taken out and the rest
Shift(seq) == [old |-> Head(seq), rest |-> Tail(seq)]

\* spawnFootprint on the trail st
SpawnInto(st, position, isLeft) ==
    IF ~footprintTexture \/ ~footprintNormal
    THEN st
    ELSE LET fp == st.nextId
             created == [i \in 1..fp |->
                            IF i = fp THEN NewFootprint(position, isLeft) ELSE st.material[i]]
             pushed == Append(st.footprints, fp)
         IN IF OverCapacity(Len(pushed))
            THEN LET shifted == Shift(pushed)
                 IN [footprints |-> shifted.rest,
                     scene |-> (st.scene \cup {fp}) \ {shifted.old},
                     material |-> Discard(created, shifted.old),
                     nextId |-> fp + 1]
            ELSE [footprints |-> pushed,
                  scene |-> st.scene \cup {fp},
                  material |-> created,
                  nextId |-> fp + 1]

SpawnFootprint(position, isLeft) ==
    LET st == SpawnInto(TrailState, position, isLeft)
    IN /\ footprints' = st.footprints
       /\ material' = st.material
       /\ scene' = st.scene
       /\ nextId' = st.nextId
       /\ UNCHANGED <<footprintTexture, footprintNormal>>

\* the callback of loader.load('footprint.png'): the texture is set when the
\* canvas has a 2d context
FootprintImageLoaded(hasContext) ==
    /\ ~footprintTexture
    /\ footprintTexture' = hasContext
    /\ UNCHANGED <<footprints, material, scene, nextId, footprintNormal>>

\* the Penguin after its constructor: an empty trail, the normal map set by
\* texLoader.load, the footprint image not yet loaded
PenguinConstructed ==
    /\ footprints = <<>>
    /\ material = <<>>
    /\ scene = {}
    /\ nextId = 1
    /\ footprintTexture = FALSE
    /\ footprintNormal = TRUE

----------------------------------------------------------------------------
(* The player: Penguin.update and the frame of App.animate.  A number of   *)
(* the player is a value or NaN.                                           *)

Num(v) == [nan |-> FALSE, v |-> v]
NaN == [nan |-> TRUE, v |-> 0]

\* a + b, a - b, a * b and a > b of numbers
NumAdd(a, b) == IF a.nan \/ b.nan THEN NaN ELSE Num(a.v + b.v)
NumSub(a, b) == IF a.nan \/ b.nan THEN NaN ELSE Num(a.v - b.v)
NumMul(a, b) == IF a.nan \/ b.nan THEN NaN ELSE Num(Mul(a.v, b.v))
NumGreater(a, b) == ~a.nan /\ ~b.nan /\ a.v > b.v

\* Math.abs(Math.cos(a))
NumAbsCos(a) == IF a.nan THEN NaN ELSE Num(Abs(Cos(a.v)))

\* the Penguin's fields and App.input after the constructors
PlayerConstructed ==
    /\ body = FALSE
    /\ walkTime = Num(0)
    /\ lastStepTime = Num(0)
    /\ isLeftStep = TRUE
    /\ penguinPosition = [x |-> Num(0), y |-> Num(0), z |-> Num(0)]
    /\ inputForward = FALSE
    /\ walked = 0

\* the AudioManager and the App after their constructors.  Of the
\* AudioManager, musicPlays and narrationPlays count the play() calls on the
\* two audio elements; heard is the time of the update calls made with
\* isWalking while audio was enabled, and sinceMusic the time of the update
\* calls made after the one that started the music.  Of the App, entered
\* counts the triggerCinematic calls that entered cinematic mode and ignored
\* those made while it was active
AppConstructed ==
    /\ audioManager = [isEnabled |-> FALSE, musicStarted |-> FALSE, narrationStarted |-> FALSE,
                       walkTimer |-> 0, narrationTimer |-> 0,
                       musicPlays |-> 0, narrationPlays |-> 0, heard |-> 0, sinceMusic |-> 0]
    /\ app = [hasInteracted |-> FALSE, walkingTimer |-> 0,
              isCinematicMode |-> FALSE, cinematicTimer |-> 0, cinematicPhaseTimer |-> 0,
              currentCinematicOffset |-> [x |-> 0, y |-> 2 * Milli, z |-> -5 * Milli],
              entered |-> 0, ignored |-> 0]

\* AudioManager.resume()
Resumed(am) == [am EXCEPT !.isEnabled = TRUE]

\* AudioManager.update(dt, isWalking)
AudioUpdated(am, dt, isWalking) ==
    IF ~am.isEnabled THEN am
    ELSE LET counting == isWalking /\ ~am.musicStarted
             walkTimer == IF counting THEN am.walkTimer + dt ELSE am.walkTimer
             startsMusic == counting /\ walkTimer >= 10 * Milli
             musicStarted == am.musicStarted \/ startsMusic
             timing == musicStarted /\ ~am.narrationStarted
             narrationTimer == IF timing THEN am.narrationTimer + dt ELSE am.narrationTimer
             startsNarration == timing /\ narrationTimer >= 4 * Milli
         IN [am EXCEPT !.walkTimer = walkTimer,
                       !.musicStarted = musicStarted,
                       !.musicPlays = IF startsMusic THEN @ + 1 ELSE @,
                       !.narrationTimer = narrationTimer,
                       !.narrationStarted = @ \/ startsNarration,
                       !.narrationPlays = IF startsNarration THEN @ + 1 ELSE @,
                       !.heard = IF isWalking THEN @ + dt ELSE @,
                       !.sinceMusic = IF am.musicStarted THEN @ + dt ELSE @]

\* App.handleInteraction: the App a and the AudioManager am after it
HandleInteraction(a, am) ==
    IF a.hasInteracted THEN [app |-> a, audioManager |-> am]
    ELSE [app |-> [a EXCEPT !.hasInteracted = TRUE], audioManager |-> Resumed(am)]

\* App.pickRandomCinematicOffset, r the Math.random() of it
PickRandomCinematicOffset(a, r) ==
    LET presets == <<[x |-> 4 * Milli, y |-> 1500, z |-> 4 * Milli],
                     [x |-> -4 * Milli, y |-> 2 * Milli, z |-> 2 * Milli],
                     [x |-> 0, y |-> 500, z |-> 6 * Milli],
                     [x |-> 0, y |-> 8 * Milli, z |-> -10 * Milli],
                     [x |-> -6 * Milli, y |-> 1 * Milli, z |-> -2 * Milli],
                     [x |-> 3 * Milli, y |-> 4 * Milli, z |-> -6 * Milli],
                     [x |-> 8 * Milli, y |-> 2 * Milli, z |-> 0]>>
    IN [a EXCEPT !.currentCinematicOffset = presets[1 + (r * Len(presets)) \div Milli]]

\* App.triggerCinematic, r the Math.random() of the offset it picks
TriggerCinematicAgain(a, r) ==
    PickRandomCinematicOffset([a EXCEPT !.isCinematicMode = TRUE,
                                        !.cinematicTimer = 10 * Milli,
                                        !.cinematicPhaseTimer = 0,
                                        !.entered = IF a.isCinematicMode THEN @ ELSE @ + 1,
                                        !.ignored = IF a.isCinematicMode THEN @ + 1 ELSE @], r)

TriggerCinematic(a, r) ==
    IF a.isCinematicMode THEN [a EXCEPT !.ignored = @ + 1]
    ELSE PickRandomCinematicOffset([a EXCEPT !.isCinematicMode = TRUE,
                                             !.cinematicTimer = 10 * Milli,
                                             !.cinematicPhaseTimer = 0,
                                             !.entered = @ + 1], r)

\* the automatic trigger and the cinematic logic of App.animate for a frame
\* of dt; r holds the Math.random() of a trigger and of a switch of angle
CinematicFrame(a, dt, forward, r) ==
    LET timer == IF forward THEN a.walkingTimer + dt
                 ELSE IF a.walkingTimer - dt * 2 > 0 THEN a.walkingTimer - dt * 2 ELSE 0
        auto == forward /\ timer > 25 * Milli
        walkedOn == [a EXCEPT !.walkingTimer = IF auto THEN 0 ELSE timer]
        entered == IF auto THEN TriggerCinematic(walkedOn, r.trigger) ELSE walkedOn
        phase == entered.cinematicPhaseTimer + dt
        counted == [entered EXCEPT !.cinematicTimer = @ - dt,
                                   !.cinematicPhaseTimer = IF phase > 2500 THEN 0 ELSE phase]
        turned == IF phase > 2500 THEN PickRandomCinematicOffset(counted, r.switch) ELSE counted
    IN IF entered.isCinematicMode
       THEN [turned EXCEPT !.isCinematicMode = turned.cinematicTimer > 0]
       ELSE entered

----------------------------------------------------------------------------
(* The colony: ColonyPenguin and ColonyManager.  An agent is a record of   *)
(* the fields of ColonyPenguin and of its mesh; `picked` records whether   *)
(* the last constructor or update call ran pickNewState.  The body roll    *)
(* (mesh.rotation.z), which reads the wall clock, is left out.             *)

IDLE == 0
WALKING == 1
TURNING == 2
LOOKING == 3

Vec(x, y, z) == [x |-> x, y |-> y, z |-> z]
VAdd(a, b) == Vec(a.x + b.x, a.y + b.y, a.z + b.z)
VSub(a, b) == Vec(a.x - b.x, a.y - b.y, a.z - b.z)
VScale(a, k) == Vec(Mul(a.x, k), Mul(a.y, k), Mul(a.z, k))
VLength(a) == Length3(a.x, a.y, a.z)

\* Vector3.normalize(): divideScalar(length() || 1)
Normalize(a) ==
    LET len == VLength(a)
    IN IF len = 0 THEN a
       ELSE Vec(Div(a.x * Milli, len), Div(a.y * Milli, len), Div(a.z * Milli, len))

\* THREE.MathUtils.lerp(x, y, t)
Lerp(x, y, t) == Mul(Milli - t, x) + Mul(t, y)

\* a linear ramp in the place of the cubic
SmoothstepLinear(x, min, max) ==
    IF x <= min THEN 0
    ELSE IF x >= max THEN Milli
    ELSE Div((x - min) * Milli, max - min)

\* THREE.MathUtils.smoothstep(x, min, max)
Smoothstep(x, min, max) ==
    IF x <= min THEN 0
    ELSE IF x >= max THEN Milli
    ELSE LET t == Div((x - min) * Milli, max - min)
         IN Mul(Mul(t, t), 3 * Milli - 2 * t)

Position(p) == Vec(p.x, p.y, p.z)

\* a roll equal to the limit counted as below it
RollBelowInclusive(r, limit) == r <= limit

\* r < limit, the comparisons of pickNewState
RollBelow(r, limit) == r < limit

\* (mutant) an agent sent Looking tilts its head to the target at once
PickNewStateSnap(p, r, u1, u2) ==
    IF RollBelow(r, 600)
    THEN [p EXCEPT !.state = IDLE,
                   !.stateDuration = 2 * Milli + Mul(u1, 4 * Milli),
                   !.timer = 0, !.picked = TRUE]
    ELSE IF RollBelow(r, 850)
    THEN [p EXCEPT !.state = WALKING,
                   !.stateDuration = 1500 + Mul(u1, 3 * Milli),
                   !.targetRotation = p.currentRotation + Mul(u2 - 500, 1500),
                   !.timer = 0, !.picked = TRUE]
    ELSE IF RollBelow(r, 950)
    THEN [p EXCEPT !.state = TURNING,
                   !.stateDuration = 1 * Milli + Mul(u1, 2 * Milli),
                   !.targetRotation = Mul(Mul(u2, PiMilli), 2 * Milli),
                   !.timer = 0, !.picked = TRUE]
    ELSE [p EXCEPT !.state = LOOKING,
                   !.stateDuration = 2 * Milli + Mul(u1, 2 * Milli),
                   !.headTiltTarget = Mul(u2 - 500, 500),
                   !.headTilt = Mul(u2 - 500, 500),
                   !.timer = 0, !.picked = TRUE]

\* ColonyPenguin.pickNewState with r and the two further Math.random() draws
PickNewState(p, r, u1, u2) ==
    IF RollBelow(r, 600)
    THEN [p EXCEPT !.state = IDLE,
                   !.stateDuration = 2 * Milli + Mul(u1, 4 * Milli),
                   !.timer = 0, !.picked = TRUE]
    ELSE IF RollBelow(r, 850)
    THEN [p EXCEPT !.state = WALKING,
                   !.stateDuration = 1500 + Mul(u1, 3 * Milli),
                   !.targetRotation = p.currentRotation + Mul(u2 - 500, 1500),
                   !.timer = 0, !.picked = TRUE]
    ELSE IF RollBelow(r, 950)
    THEN [p EXCEPT !.state = TURNING,
                   !.stateDuration = 1 * Milli + Mul(u1, 2 * Milli),
                   !.targetRotation = Mul(Mul(u2, PiMilli), 2 * Milli),
                   !.timer = 0, !.picked = TRUE]
    ELSE [p EXCEPT !.state = LOOKING,
                   !.stateDuration = 2 * Milli + Mul(u1, 2 * Milli),
                   !.headTiltTarget = Mul(u2 - 500, 500),
                   !.timer = 0, !.picked = TRUE]

\* new ColonyPenguin(scene, model, startPos); d holds the Math.random() draws
\* of the field initialisers and of the constructor, in order
NewColonyPenguin(startPos, d) ==
    LET rotation == Mul(Mul(d.rotation, PiMilli), 2 * Milli)
    IN PickNewState([x |-> startPos.x, y |-> startPos.y, z |-> startPos.z,
                     state |-> IDLE, timer |-> 0, stateDuration |-> 0,
                     walkTime |-> 0,
                     waddleSpeed |-> 5 * Milli + Mul(d.waddle, 3 * Milli),
                     moveSpeed |-> 500 + Mul(d.speed, 500),
                     targetRotation |-> rotation, currentRotation |-> rotation,
                     headTilt |-> 0, headTiltTarget |-> 0,
                     opacity |-> Milli, visible |-> TRUE, picked |-> FALSE],
                    d.roll, d.duration, d.side)

\* the push of the agent at `other` on the agent at `self`
Push(self, other) ==
    LET dist == VLength(VSub(self, other))
    IN IF dist < 1 * Milli
       THEN VScale(Normalize(VSub(self, other)), Div(500 * Milli, dist + 100))
       ELSE Vec(0, 0, 0)

\* the loop over otherPenguins for the indices lo..hi: the sum of the pushes
\* on agent i (summed by halves of the range; the sum does not depend on it)
RECURSIVE Avoidance(_, _, _, _)
Avoidance(ps, i, lo, hi) ==
    IF hi < lo THEN Vec(0, 0, 0)
    ELSE IF lo = hi
    THEN IF lo = i THEN Vec(0, 0, 0) ELSE Push(Position(ps[i]), Position(ps[lo]))
    ELSE LET mid == (lo + hi) \div 2
         IN VAdd(Avoidance(ps, i, lo, mid), Avoidance(ps, i, mid + 1, hi))

\* (mutant) colonyCenter.sub(position): the difference is written into
\* colonyCenter itself
ToCenterInPlace(colonyCenter, position) ==
    [value |-> VSub(colonyCenter, position), colonyCenter |-> VSub(colonyCenter, position)]

\* colonyCenter.clone().sub(position): the difference, a new vector, and
\* colonyCenter as the call leaves it
ToCenter(colonyCenter, position) ==
    [value |-> VSub(colonyCenter, position), colonyCenter |-> colonyCenter]

\* the pull toward the colony center
Cohesion(position, colonyCenter) ==
    LET toCenter == ToCenter(colonyCenter, position).value
    IN IF VLength(toCenter) > 5 * Milli
       THEN VScale(Normalize(toCenter), 100)
       ELSE Vec(0, 0, 0)

\* ColonyPenguin.updateWalking of agent i of ps
UpdateWalking(ps, i, dt, colonyCenter) ==
    LET p == ps[i]
        phase == p.walkTime + Mul(dt, p.waddleSpeed)
        rotation == Lerp(p.currentRotation, p.targetRotation, dt * 2)
        forward == Vec(Sin(rotation), 0, Cos(rotation))
        avoidance == VAdd(Avoidance(ps, i, 1, Len(ps)), Cohesion(Position(p), colonyCenter))
        step == VScale(Normalize(VAdd(forward, avoidance)), Mul(p.moveSpeed, dt))
        moved == VAdd(Position(p), step)
    IN [p EXCEPT !.walkTime = phase,
                 !.currentRotation = rotation,
                 !.x = moved.x,
                 !.y = moved.y + Mul(Abs(Cos(phase)), 30),
                 !.z = moved.z]

\* (mutant) an agent that turns waddles on
UpdateTurningWaddle(p, dt) ==
    [p EXCEPT !.currentRotation = Lerp(p.currentRotation, p.targetRotation, dt * 3),
              !.walkTime = @ + Mul(dt, p.waddleSpeed)]

\* ColonyPenguin.updateTurning
UpdateTurning(p, dt) ==
    [p EXCEPT !.currentRotation = Lerp(p.currentRotation, p.targetRotation, dt * 3)]

\* ColonyPenguin.updateLooking
UpdateLooking(p, dt) ==
    [p EXCEPT !.headTilt = Lerp(p.headTilt, p.headTiltTarget, dt * 2)]

\* a timer that has to pass the duration
TimerExpiredStrict(timer, stateDuration) == timer > stateDuration

\* this.timer >= this.stateDuration
TimerExpired(timer, stateDuration) == timer >= stateDuration

\* (mutant) the agents kept at the height of the flat ground
GroundPinFlat(x, z) == 0

\* the y the update pins the agent to
GroundPin(x, z) == Mul(Mul(Sin(Mul(x, 100)), Cos(Mul(z, 100))), 500)

\* (mutant) the timer compared with the duration before dt is added to it
ChosenLate(p, dt, d) ==
    LET ticked == [p EXCEPT !.timer = @ + dt, !.picked = FALSE]
    IN IF TimerExpired(p.timer, p.stateDuration)
       THEN PickNewState(ticked, d.roll, d.duration, d.side)
       ELSE ticked

\* the head of ColonyPenguin.update: the timer, and a new state when it has
\* run out, with the draws d for pickNewState
Chosen(p, dt, d) ==
    LET ticked == [p EXCEPT !.timer = @ + dt, !.picked = FALSE]
    IN IF TimerExpired(ticked.timer, ticked.stateDuration)
       THEN PickNewState(ticked, d.roll, d.duration, d.side)
       ELSE ticked

\* ColonyPenguin.update of agent i of ps, with the draws d for pickNewState
UpdatePenguin(ps, i, dt, colonyCenter, d) ==
    LET chosen == Chosen(ps[i], dt, d)
        now == [ps EXCEPT ![i] = chosen]
        acted == CASE chosen.state = IDLE -> chosen
                   [] chosen.state = WALKING -> UpdateWalking(now, i, dt, colonyCenter)
                   [] chosen.state = TURNING -> UpdateTurning(chosen, dt)
                   [] chosen.state = LOOKING -> UpdateLooking(chosen, dt)
    IN [acted EXCEPT !.y = GroundPin(acted.x, acted.z)]

\* the colony, agents and center, after penguins[i].update(dt, colonyCenter,
\* penguins): the agent's record is replaced, and the center is what the
\* walking step, the only one that is handed it, leaves of it
AgentUpdate(colony, i, dt, d) ==
    [penguins |-> [colony.penguins EXCEPT
                      ![i] = UpdatePenguin(colony.penguins, i, dt, colony.colonyCenter, d)],
     colonyCenter |-> IF Chosen(colony.penguins[i], dt, d).state = WALKING
                      THEN ToCenter(colony.colonyCenter, Position(colony.penguins[i])).colonyCenter
                      ELSE colony.colonyCenter]

\* this.penguins.forEach(p => p.update(...)) for the agents lo..hi, in the
\* order of the list (the lower half of the range before the upper half; the
\* colony so far is read first, so that the halves are evaluated one after
\* the other)
RECURSIVE UpdateFrom(_, _, _, _, _)
UpdateFrom(colony, lo, hi, dt, draws) ==
    IF hi < lo \/ hi > Len(colony.penguins) THEN colony
    ELSE IF lo = hi THEN AgentUpdate(colony, lo, dt, draws[lo])
    ELSE LET mid == (lo + hi) \div 2
             lower == UpdateFrom(colony, lo, mid, dt, draws)
         IN UpdateFrom(lower, mid + 1, hi, dt, draws)

\* the agents and the center of the ColonyManager
Colony == [penguins |-> penguins, colonyCenter |-> managerColonyCenter]

\* (mutant) an agent that is hidden also starts its state over
SetOpacityRestart(p, opacity) ==
    [p EXCEPT !.opacity = opacity, !.visible = opacity > 10,
              !.timer = IF opacity > 10 THEN @ ELSE 0]

\* ColonyPenguin.setOpacity
SetOpacity(p, opacity) == [p EXCEPT !.opacity = opacity, !.visible = opacity > 10]

ColonyCenter == Vec(0, 0, 0)

\* the opacity ColonyManager.update gives the agents for the player at playerPos
FadeOpacity(playerPos) == Milli - Smoothstep(VLength(playerPos), 5 * Milli, 30 * Milli)

\* (mutant) a count drawn from twice the range
SpawnCountWide(r) == 15 + (r * 20) \div Milli

\* const count = 15 + Math.floor(Math.random() * 10)
SpawnCount(r) == 15 + (r * 10) \div Milli

\* the start position loadAndSpawn draws: an angle and a radius in [2, 6)
StartPosition(d) ==
    LET angle == Mul(Mul(d.angle, PiMilli), 2 * Milli)
        radius == 2 * Milli + Mul(d.radius, 4 * Milli)
    IN Vec(Mul(Cos(angle), radius), 0, Mul(Sin(angle), radius))

\* the callback of loader.load in loadAndSpawn: one agent per element of
\* spawns, which holds the Math.random() draws made for that agent
ModelLoaded(spawns) ==
    /\ penguins = <<>>
    /\ penguins' = [i \in 1..Len(spawns) |-> NewColonyPenguin(StartPosition(spawns[i]), spawns[i])]
    /\ UNCHANGED <<managerColonyCenter, frame, lastUpdate>>

\* ColonyManager.update(dt, playerPos); draws[i] are the Math.random() draws
\* agent i makes if it picks a new state
ColonyUpdate(dt, playerPos, draws) ==
    LET after == UpdateFrom(Colony, 1, Len(penguins), dt, draws)
        moved == after.penguins
        opacity == FadeOpacity(playerPos)
    IN /\ penguins' = [i \in 1..Len(moved) |-> SetOpacity(moved[i], opacity)]
       /\ managerColonyCenter' = after.colonyCenter
       /\ frame' = frame + 1
       /\ lastUpdate' = [dt |-> dt, playerPos |-> playerPos]

\* the ColonyManager after its constructor: the model not yet loaded
ColonyConstructed ==
    /\ penguins = <<>>
    /\ managerColonyCenter = ColonyCenter
    /\ frame = 0
    /\ lastUpdate = [dt |-> 0, playerPos |-> Vec(0, 0, 0)]

\* pickNewState applied to the agent prev with the draws r, u1, u2
Pick(prev, r, u1, u2) ==
    /\ pickArgs' = [prev |-> prev, r |-> r, u1 |-> u1, u2 |-> u2]
    /\ pickResult' = PickNewState(prev, r, u1, u2)

----------------------------------------------------------------------------
(* The specifications: the trail, the ground heights, the colony, the      *)
(* state choice and the fade, each with the inputs it is run on.           *)

TrailStart == 199
MaxNewSpawns == 3
DecayDts == {0, 20 * Milli, 30 * Milli}
SpawnPositions == {Vec(0, 0, 0)}

\* the trail after TrailStart consecutive spawns at the origin, right after
\* the footprint image has loaded
TrailFilled ==
    /\ footprints = [i \in 1..TrailStart |-> i]
    /\ material = [i \in 1..TrailStart |-> NewFootprint(Vec(0, 0, 0), TRUE)]
    /\ scene = 1..TrailStart
    /\ nextId = TrailStart + 1
    /\ footprintTexture = TRUE
    /\ footprintNormal = TRUE

\* Environment.smoothstep(min, max, value)
EnvSmoothstep(min, max, value) ==
    LET x == IF value <= min THEN 0
             ELSE IF value >= max THEN Milli
             ELSE Div((value - min) * Milli, max - min)
    IN Mul(Mul(x, x), 3 * Milli - 2 * x)

\* the arguments createMountain gives createMountainMesh for the central
\* peak and for the second peak left of it (scale and heightScale in
\* 1/1000); both planes have a vertex every 39.0625 units, one at (0, 0)
CentralPeak == [scale |-> 1000, heightScale |-> 1000, seed |-> 0]
LeftPeak2 == [scale |-> 750, heightScale |-> 820, seed |-> 200]

\* the vertex of the plane of createMountainMesh at (x, y), in whole units
\* of the mesh, after the loop that deforms the vertices and the loop that
\* colours them; n holds the values the fbm noise has at the vertex: n1 and
\* n2, and ridge for Math.pow(ridge, 1.8)
MountainVertex(x, y, peak, n) ==
    LET radius == (4500 * peak.scale) \div Milli
        q == (Length3(x, y, 0) * Milli) \div radius
        mask == Milli - Mul(q, Isqrt(q * Milli))
        term(v, weight) == (((Mul(v, mask) * weight) \div Milli) * peak.heightScale) \div Milli
        z == IF mask <= 0 THEN -10
             ELSE term(n.n1, 1200) + term(n.n2, 150) + term(n.ridge, 500)
        noiseVal == Mul(Mul(Sin((x + peak.seed) * 100), Cos((z + peak.seed) * 100)) + Milli, 500)
        mixVal == EnvSmoothstep(50 * peak.heightScale, 500 * peak.heightScale,
                                y * Milli + Mul(noiseVal, 250 * peak.heightScale))
    IN [x |-> x, y |-> y, z |-> z, peak |-> peak, noiseVal |-> noiseVal, mixVal |-> mixVal]

\* one vertex of a mountain mesh looked at
SampleMountain(x, y, peak, n) ==
    /\ mountainVertex' = MountainVertex(x, y, peak, n)
    /\ UNCHANGED <<sampleX, sampleZ, penguinH, envH, meshH>>

NoSample ==
    /\ sampleX = 0
    /\ sampleZ = 0
    /\ penguinH = PenguinGetGroundHeight(0, 0)
    /\ envH = EnvGetGroundHeight(0, 0)
    /\ meshH = ShaderHeight(0, 0)
    /\ mountainVertex = MountainVertex(0, 0, CentralPeak, [n1 |-> 0, n2 |-> 0, ridge |-> 0])

\* the draws of one agent's creation, and of one pickNewState
SpawnDraw(angle, radius, waddle, speed, rotation, roll, duration, side) ==
    [angle |-> angle, radius |-> radius, waddle |-> waddle, speed |-> speed,
     rotation |-> rotation, roll |-> roll, duration |-> duration, side |-> side]
StateDraw(roll, duration, side) == [roll |-> roll, duration |-> duration, side |-> side]

\* the agents pickNewState is tried on: one in each state
PickPrevs ==
    {NewColonyPenguin(Vec(2 * Milli, 0, 0), SpawnDraw(0, 0, 0, 0, 250, r, 500, 999)) :
        r \in {0, 600, 850, 950}}
PickRolls == {0, 300, 599, 600, 849, 850, 949, 950, 999}
PickDraws == {0, 500, 999}

NoPick ==
    /\ pickArgs = [prev |-> CHOOSE p \in PickPrevs : p.state = IDLE, r |-> 0, u1 |-> 0, u2 |-> 0]
    /\ pickResult = PickNewState(pickArgs.prev, 0, 0, 0)

CanSpawn == nextId <= MaxNewSpawns \/ (nextId > TrailStart /\ nextId <= TrailStart + MaxNewSpawns)

InitTrail == (PenguinConstructed \/ TrailFilled) /\ NoSample /\ ColonyConstructed /\ NoPick /\ PlayerConstructed /\ AppConstructed

NextTrail ==
    \/ \E hasContext \in BOOLEAN :
          FootprintImageLoaded(hasContext) /\ UNCHANGED <<heightVars, colonyVars, pickVars, playerVars>>
    \/ \E position \in SpawnPositions, isLeft \in BOOLEAN :
          CanSpawn /\ SpawnFootprint(position, isLeft) /\ UNCHANGED <<heightVars, colonyVars, pickVars, playerVars>>
    \/ \E dt \in DecayDts :
          UpdateFootprints(dt) /\ UNCHANGED <<heightVars, colonyVars, pickVars, playerVars>>

SpecTrail == InitTrail /\ [][NextTrail]_vars

HeightGrid == 6
GridStep == (7 * Milli) \div 2
HeightCoords == {i * GridStep : i \in (-HeightGrid)..HeightGrid}

\* the footprint elevation, Environment's elevation and the displacement of
\* the ground mesh vertex at the world coordinate (x, z)
SampleGround(x, z) ==
    /\ sampleX' = x
    /\ sampleZ' = z
    /\ penguinH' = PenguinGetGroundHeight(x, z)
    /\ envH' = EnvGetGroundHeight(x, z)
    /\ meshH' = ShaderHeight(x, z)
    /\ UNCHANGED mountainVertex

InitHeight == PenguinConstructed /\ NoSample /\ ColonyConstructed /\ NoPick /\ PlayerConstructed /\ AppConstructed

NextHeight ==
    \E x \in HeightCoords, z \in HeightCoords :
        SampleGround(x, z) /\ UNCHANGED <<trailVars, colonyVars, pickVars, playerVars>>

SpecHeight == InitHeight /\ [][NextHeight]_vars

InitPick == PenguinConstructed /\ NoSample /\ ColonyConstructed /\ NoPick /\ PlayerConstructed /\ AppConstructed

NextPick ==
    \E prev \in PickPrevs, r \in PickRolls, u1 \in PickDraws, u2 \in PickDraws :
        Pick(prev, r, u1, u2) /\ UNCHANGED <<trailVars, heightVars, colonyVars, playerVars>>

SpecPick == InitPick /\ [][NextPick]_vars

ColonySize == 2
MaxFrames == 4
ColonyDts == {500, 1 * Milli}

\* an agent at (2, 0, 0) walking along +z, one near it at (2.5, 0, 0) idle
\* and facing -z, and one at the far side near radius 6 walking outward
SpawnDraws ==
    {SpawnDraw(0, 0, 0, 0, 0, 600, 0, 500),
     SpawnDraw(0, 125, 999, 999, 500, 0, 0, 0),
     SpawnDraw(500, 999, 0, 999, 750, 849, 999, 0)}

StateDraws ==
    {StateDraw(0, 0, 0), StateDraw(600, 0, 500), StateDraw(849, 999, 999),
     StateDraw(850, 0, 250), StateDraw(950, 500, 999)}

PlayerAtOrigin == {Vec(0, 0, 0)}

InitColony == PenguinConstructed /\ NoSample /\ ColonyConstructed /\ NoPick /\ PlayerConstructed /\ AppConstructed

NextColony ==
    \/ \E spawns \in [1..ColonySize -> SpawnDraws] :
          ModelLoaded(spawns) /\ UNCHANGED <<trailVars, heightVars, pickVars, playerVars>>
    \/ \E dt \in ColonyDts, playerPos \in PlayerAtOrigin, draws \in [1..ColonySize -> StateDraws] :
          /\ frame < MaxFrames
          /\ ColonyUpdate(dt, playerPos, draws)
          /\ UNCHANGED <<trailVars, heightVars, pickVars, playerVars>>

SpecColony == InitColony /\ [][NextColony]_vars

FadeDts == {0, 500}
FadePositions ==
    {Vec(0, 0, 0), Vec(3 * Milli, 0, 4 * Milli), Vec(0, 50, 10 * Milli), Vec(0, 0, 17500),
     Vec(0, 0, 25 * Milli), Vec(0, 0, 30 * Milli), Vec(0, 0, 40 * Milli)}

NextFade ==
    \/ \E spawns \in [1..ColonySize -> SpawnDraws] :
          ModelLoaded(spawns) /\ UNCHANGED <<trailVars, heightVars, pickVars, playerVars>>
    \/ \E dt \in FadeDts, playerPos \in FadePositions, draws \in [1..ColonySize -> {StateDraw(0, 0, 0)}] :
          /\ frame < MaxFrames
          /\ ColonyUpdate(dt, playerPos, draws)
          /\ UNCHANGED <<trailVars, heightVars, pickVars, playerVars>>

SpecFade == InitColony /\ [][NextFade]_vars

MaxDriftFrames == 11
DriftDts == {1 * Milli}

\* an agent near radius 6 that faces away from the center and walks, and an
\* idle one at radius 2
DriftSpawnDraws ==
    {SpawnDraw(500, 999, 0, 999, 750, 849, 999, 500),
     SpawnDraw(0, 0, 0, 0, 0, 0, 0, 0)}

\* walking on straight ahead, or idling
DriftStateDraws == {StateDraw(849, 999, 500), StateDraw(0, 0, 0)}

NextDrift ==
    \/ \E spawns \in [1..ColonySize -> DriftSpawnDraws] :
          ModelLoaded(spawns) /\ UNCHANGED <<trailVars, heightVars, pickVars, playerVars>>
    \/ \E dt \in DriftDts, playerPos \in PlayerAtOrigin, draws \in [1..ColonySize -> DriftStateDraws] :
          /\ frame < MaxDriftFrames
          /\ ColonyUpdate(dt, playerPos, draws)
          /\ UNCHANGED <<trailVars, heightVars, pickVars, playerVars>>

SpecDrift == InitColony /\ [][NextDrift]_vars

----------------------------------------------------------------------------
(* The claims about the footprint trail.                                   *)

\* the meshes created so far, and those the trail holds
Created == 1..(nextId - 1)
Live == {footprints[i] : i \in 1..Len(footprints)}

\* the opacity lost in dt milliseconds at 0.02 per second
Fade(dt) == (dt * 2) \div 100

\* the mesh was taken out because it faded out / because the trail was full
RemovedByAge(fp) == fp \notin Live /\ material[fp].opacity <= 0
RemovedByCapacity(fp) == fp \notin Live /\ material[fp].opacity > 0

\* C1: between operations the trail never holds more than 200 footprints,
\* whatever the order of the spawn and decay calls
CapacityInvariant == Len(footprints) <= 200

\* a spawn onto a full trail has happened and the trail is full
CapacityWitness == Len(footprints) = 200 /\ nextId > 201

\* C2: the trail is ordered by spawn time; a spawn that makes the length
\* exceed 200 evicts exactly the footprint at the front, which is the one
\* spawned earliest, the new footprint is last and the others keep their
\* order; any other spawn only appends
EvictOldestInOrder ==
    /\ [](\A i \in 1..(Len(footprints) - 1) : footprints[i] < footprints[i + 1])
    /\ [][\A position \in SpawnPositions, isLeft \in BOOLEAN :
             (footprintTexture /\ footprintNormal /\ SpawnFootprint(position, isLeft)) =>
                 IF Len(footprints) + 1 > 200
                 THEN /\ footprints' = Tail(footprints) \o <<nextId>>
                      /\ \A fp \in Live : Head(footprints) <= fp
                      /\ Live \ Live' = {Head(footprints)}
                 ELSE footprints' = footprints \o <<nextId>>]_vars

\* two footprints have been evicted from the front of a full trail
EvictionWitness ==
    /\ Len(footprints) = 200
    /\ Head(footprints) = 3
    /\ RemovedByCapacity(1)
    /\ RemovedByCapacity(2)

\* C3: a footprint starts at opacity 1.0; every decay call with dt > 0
\* lowers the opacity of every footprint of the trail by 0.02*dt, strictly,
\* and the footprint stays in the trail unless that took it to <= 0; a
\* footprint that has left the trail is never changed or put back
DecayMonotone ==
    [][/\ \A dt \in DecayDts :
             (dt > 0 /\ UpdateFootprints(dt)) =>
                 \A fp \in Live :
                    /\ material'[fp].opacity = material[fp].opacity - Fade(dt)
                    /\ material'[fp].opacity < material[fp].opacity
                    /\ fp \in Live' \/ material'[fp].opacity <= 0
       /\ \A fp \in Created' \ Created : material'[fp].opacity = Milli
       /\ \A fp \in Created \ Live :
             /\ fp \notin Live'
             /\ fp \notin scene'
             /\ material'[fp] = material[fp]]_vars

\* a footprint has been lowered twice and is still there, another has faded out
DecayWitness ==
    /\ \E fp \in Live : material[fp].opacity = Milli - Fade(20 * Milli) - Fade(20 * Milli)
    /\ \E fp \in Created : RemovedByAge(fp)

\* C4: after a decay call no footprint of the trail has opacity <= 0: those
\* the call took to <= 0 are out of the trail, and the trail is the old one
\* without the removed footprints, in the old order
DecayRemovesFaded ==
    [][\A dt \in DecayDts :
          UpdateFootprints(dt) =>
              /\ \A fp \in Live' : material'[fp].opacity > 0
              /\ \A fp \in Live : material'[fp].opacity <= 0 => fp \notin Live'
              /\ footprints' = SelectSeq(footprints, LAMBDA fp : fp \in Live')]_vars

\* a decay call took a footprint to exactly 0 and removed it, and at least
\* two older-to-newer footprints it lowered are still in the trail
RemovalWitness ==
    /\ \E fp \in Created : RemovedByAge(fp) /\ material[fp].opacity = 0
    /\ Len(footprints) >= 2
    /\ \A fp \in Live : material[fp].opacity < Milli

\* C5: no footprint is removed from the scene or disposed more than once,
\* the scene holds exactly the footprints of the trail, each once in the
\* trail, and a decay call lowers every footprint of the trail exactly once
\* also when it removes several of them
NoDoubleFree ==
    /\ [](\A fp \in Created : material[fp].removals <= 1 /\ material[fp].disposals <= 1)
    /\ [](scene = Live /\ Cardinality(Live) = Len(footprints))
    /\ [](\A fp \in Created \ Live : material[fp].removals = 1 /\ material[fp].disposals = 1)
    /\ [][\A dt \in DecayDts :
             UpdateFootprints(dt) =>
                 \A fp \in Live : material'[fp].opacity = material[fp].opacity - Fade(dt)]_vars

\* both paths have run: two footprints were evicted from a full trail, and a
\* later decay call removed several faded footprints in one pass and left others
BothPathsWitness ==
    /\ {1, 2, 3, 4} \subseteq Created
    /\ RemovedByCapacity(1)
    /\ RemovedByCapacity(2)
    /\ RemovedByAge(3)
    /\ RemovedByAge(4)
    /\ Len(footprints) >= 1

----------------------------------------------------------------------------
(* The claim about the ground heights.                                     *)

HeightTol == 10

\* C9: at every world coordinate the elevation a footprint is placed on, the
\* elevation Environment.getGroundHeight returns and the displacement of the
\* ground mesh are the same, up to the tolerance
HeightsAgree ==
    /\ penguinH = envH
    /\ Abs(envH - meshH) <= HeightTol

----------------------------------------------------------------------------
(* The claims about the colony.                                            *)

Agents == 1..Len(penguins)

\* the step is a ColonyManager.update call
IsColonyUpdate == frame' = frame + 1

\* C6: an agent is always in one of the four states, and an update picks a
\* new state and duration for it exactly when its elapsed time plus dt has
\* reached its state duration
StateMachineClosure ==
    /\ [](\A i \in Agents : penguins[i].state \in {IDLE, WALKING, TURNING, LOOKING})
    /\ [][IsColonyUpdate =>
             \A i \in Agents :
                penguins'[i].picked <=>
                    penguins[i].timer + lastUpdate'.dt >= penguins[i].stateDuration]_vars

\* an update in which one agent picked a new state and another, still within
\* its duration, did not
ClosureWitness ==
    /\ frame > 0
    /\ \E i \in Agents : penguins[i].picked /\ penguins[i].timer = 0
    /\ \E i \in Agents : /\ ~penguins[i].picked
                          /\ 0 < penguins[i].timer
                          /\ penguins[i].timer < penguins[i].stateDuration

\* C7: the roll alone decides the next state, by the table, whatever the
\* agent's state before, and the duration lies in the range of that state
TransitionTable ==
    LET r == pickArgs.r
        q == pickResult
        Is(state, lo, hi) == q.state = state /\ lo <= q.stateDuration /\ q.stateDuration <= hi
    IN /\ (0 <= r /\ r < 600) => Is(IDLE, 2000, 6000)
       /\ (600 <= r /\ r < 850) => Is(WALKING, 1500, 4500)
       /\ (850 <= r /\ r < 950) => Is(TURNING, 1000, 3000)
       /\ (950 <= r /\ r < 1000) => Is(LOOKING, 2000, 4000)
       /\ \A other \in PickPrevs :
             LET o == PickNewState(other, r, pickArgs.u1, pickArgs.u2)
             IN o.state = q.state /\ o.stateDuration = q.stateDuration

\* a roll of exactly 0.6 took an agent that was Looking to Walking
TableWitness ==
    /\ pickArgs.r = 600
    /\ pickArgs.prev.state = LOOKING
    /\ pickResult.state = WALKING
    /\ pickResult.stateDuration = 1500 + Mul(pickArgs.u1, 3000)

\* C8: after a colony update every agent has the opacity 1 - smoothstep of
\* the player's distance d from the origin: 1 up to d = 5, 0 from d = 30 on,
\* 0.5 at d = 17.5, and no larger distance gives a larger opacity
FadeContract ==
    [][IsColonyUpdate =>
          \A i \in 1..Len(penguins') :
             LET d == VLength(lastUpdate'.playerPos)
                 o == penguins'[i].opacity
                 c == IF d < 5000 THEN 5000 ELSE IF d > 30000 THEN 30000 ELSE d
                 t == Div((c - 5000) * Milli, 25000)
                 cubic == 3 * Mul(t, t) - 2 * Mul(Mul(t, t), t)
             IN /\ Abs(o - (Milli - cubic)) <= 1
                /\ d <= 5000 => o = 1000
                /\ d >= 30000 => o = 0
                /\ d = 17500 => o = 500
                /\ \A far \in FadePositions : VLength(far) >= d => FadeOpacity(far) <= o]_vars

\* the colony was updated with the player at distance 17.5 and is half faded
FadeWitness ==
    /\ frame > 0
    /\ penguins # <<>>
    /\ VLength(lastUpdate.playerPos) = 17500
    /\ \A i \in Agents : penguins[i].opacity = 500 /\ penguins[i].visible

\* the distance of agent i from the colony center in the ground plane
HorizontalDistance(i) == Length3(penguins[i].x - ColonyCenter.x, 0, penguins[i].z - ColonyCenter.z)

\* C10: no agent that started within radius 6 is ever further than 15 from
\* the colony center
DriftBounded == \A i \in Agents : HorizontalDistance(i) <= 15 * Milli

----------------------------------------------------------------------------
(* The placement of a footprint.                                           *)

\* feet at the origin, at (10, 20) and elsewhere, on the ground or in a bob
PlacePositions ==
    {Vec(0, 0, 0), Vec(10 * Milli, 0, 20 * Milli), Vec(10 * Milli, 50, 20 * Milli),
     Vec(-200, 25, 7 * Milli), Vec(200, 0, -3500)}

NextPlace ==
    \/ \E hasContext \in BOOLEAN :
          FootprintImageLoaded(hasContext) /\ UNCHANGED <<heightVars, colonyVars, pickVars, playerVars>>
    \/ \E position \in PlacePositions, isLeft \in BOOLEAN :
          /\ nextId <= MaxNewSpawns
          /\ SpawnFootprint(position, isLeft)
          /\ UNCHANGED <<heightVars, colonyVars, pickVars, playerVars>>
    \/ \E dt \in DecayDts :
          UpdateFootprints(dt) /\ UNCHANGED <<heightVars, colonyVars, pickVars, playerVars>>

SpecPlace == InitHeight /\ [][NextPlace]_vars

\* C11: a spawn with both textures loaded creates a footprint at the x and z
\* of the given position, at the ground elevation there plus 0.03, turned
\* about z by 0.2 + pi for a left foot and by -0.2 + pi for a right foot;
\* a left foot at (10, 20) lies at elevation(10, 20) + 0.03 with 0.2 + pi
PlacementContract ==
    [][\A position \in PlacePositions, isLeft \in BOOLEAN :
          (footprintTexture /\ footprintNormal /\ SpawnFootprint(position, isLeft)) =>
              LET fp == material'[nextId]
              IN /\ fp.x = position.x
                 /\ fp.z = position.z
                 /\ fp.y = EnvGetGroundHeight(position.x, position.z) + 30
                 /\ fp.rotZ = (IF isLeft THEN 200 ELSE -200) + 3142
                 /\ nextId \in scene'
                 /\ (position.x = 10000 /\ position.z = 20000 /\ isLeft) =>
                       fp.y = EnvGetGroundHeight(10000, 20000) + 30 /\ fp.rotZ = 3342]_vars

\* a left foot has been spawned at (10, 20) from a position in mid-bob, and
\* a right foot elsewhere
PlacementWitness ==
    /\ \E fp \in Created :
          /\ material[fp].x = 10000 /\ material[fp].z = 20000
          /\ material[fp].rotZ = 3342
          /\ material[fp].y = EnvGetGroundHeight(10000, 20000) + 30
          /\ material[fp].y # 50 + 30
    /\ \E fp \in Created : material[fp].rotZ = 2942 /\ material[fp].x = 200

----------------------------------------------------------------------------
(* Updates with a negative dt.                                             *)

MaxOpacity == 1200
SignedDts == {-10 * Milli, 20 * Milli}
SignedColonyDts == {-500, 500}

\* one walking agent at (2, 0, 0) and one idle agent
SignedSpawnDraws == {SpawnDraw(0, 0, 0, 0, 0, 600, 0, 500), SpawnDraw(250, 500, 0, 0, 0, 0, 0, 0)}

NextSigned ==
    \/ \E hasContext \in BOOLEAN :
          FootprintImageLoaded(hasContext) /\ UNCHANGED <<heightVars, colonyVars, pickVars, playerVars>>
    \/ \E position \in SpawnPositions :
          /\ nextId < MaxNewSpawns
          /\ SpawnFootprint(position, TRUE)
          /\ UNCHANGED <<heightVars, colonyVars, pickVars, playerVars>>
    \/ \E dt \in SignedDts :
          /\ \A i \in 1..Len(footprints) :
                FadedOpacity(material[footprints[i]].opacity, dt) <= MaxOpacity
          /\ UpdateFootprints(dt)
          /\ UNCHANGED <<heightVars, colonyVars, pickVars, playerVars>>
    \/ \E spawns \in [1..ColonySize -> SignedSpawnDraws] :
          ModelLoaded(spawns) /\ UNCHANGED <<trailVars, heightVars, pickVars, playerVars>>
    \/ \E dt \in SignedColonyDts, playerPos \in PlayerAtOrigin,
          draws \in [1..ColonySize -> {StateDraw(600, 0, 500)}] :
          /\ frame < MaxFrames
          /\ ColonyUpdate(dt, playerPos, draws)
          /\ UNCHANGED <<trailVars, heightVars, pickVars, playerVars>>

SpecSigned == InitHeight /\ [][NextSigned]_vars

\* C12: an update with a negative dt does not run the simulation backward:
\* no footprint of the trail gets a higher opacity, and no agent gets a
\* smaller elapsed time or walk phase or another position
NeverBackward ==
    [][/\ \A dt \in SignedDts :
             (dt < 0 /\ UpdateFootprints(dt)) =>
                 \A i \in 1..Len(footprints) :
                    material'[footprints[i]].opacity <= material[footprints[i]].opacity
       /\ (IsColonyUpdate /\ lastUpdate'.dt < 0) =>
             \A i \in Agents :
                /\ penguins'[i].timer >= penguins[i].timer
                /\ penguins'[i].walkTime >= penguins[i].walkTime
                /\ penguins'[i].x = penguins[i].x
                /\ penguins'[i].z = penguins[i].z]_vars

----------------------------------------------------------------------------
(* The frame of the running application: App.animate, Penguin.update and   *)
(* the events that load the models and set the input.                      *)

\* the AudioManager object, and the number an operand value stands for in a
\* product: an object that is not a number gives NaN
AudioManagerObject == [object |-> "AudioManager"]
ToNumber(value) == IF "object" \in DOMAIN value THEN NaN ELSE value

\* the coordinates of a position whose numbers are values (a stride is only
\* made with a walk phase that is a value, and then the position is one)
Coordinates(pos) == Vec(pos.x.v, pos.y.v, pos.z.v)

\* (mutant) the foot not changed after a stride
PenguinUpdateOneFoot(dt, moving, speedMultiplier, audio) ==
    LET decayed == Decayed(TrailState, dt)
        effectiveWaddleSpeed == NumMul(Num(8 * Milli), ToNumber(speedMultiplier))
        effectiveMoveSpeed == NumMul(Num(2 * Milli), ToNumber(speedMultiplier))
        phase == NumAdd(walkTime, NumMul(Num(dt), effectiveWaddleSpeed))
        bob == NumAbsCos(phase)
        moved == [x |-> penguinPosition.x,
                  y |-> NumMul(bob, Num(50)),
                  z |-> NumAdd(penguinPosition.z, NumMul(effectiveMoveSpeed, Num(dt)))]
        stride == NumGreater(NumSub(phase, lastStepTime), Num(PiMilli))
        footPos == [moved EXCEPT !.x = NumAdd(@, Num(IF isLeftStep THEN -200 ELSE 200))]
        st == IF body /\ moving /\ stride
              THEN SpawnInto(decayed, Coordinates(footPos), isLeftStep)
              ELSE decayed
    IN /\ footprints' = st.footprints
       /\ material' = st.material
       /\ scene' = st.scene
       /\ nextId' = st.nextId
       /\ UNCHANGED <<footprintTexture, footprintNormal, body>>
       /\ IF ~body \/ ~moving
          THEN UNCHANGED <<walkTime, lastStepTime, isLeftStep, penguinPosition>>
          ELSE /\ walkTime' = phase
               /\ penguinPosition' = moved
               /\ lastStepTime' = IF stride THEN phase ELSE lastStepTime
               /\ isLeftStep' = isLeftStep

\* Penguin.update(dt, moving, speedMultiplier, audio)
PenguinUpdate(dt, moving, speedMultiplier, audio) ==
    LET decayed == Decayed(TrailState, dt)
        effectiveWaddleSpeed == NumMul(Num(8 * Milli), ToNumber(speedMultiplier))
        effectiveMoveSpeed == NumMul(Num(2 * Milli), ToNumber(speedMultiplier))
        phase == NumAdd(walkTime, NumMul(Num(dt), effectiveWaddleSpeed))
        bob == NumAbsCos(phase)
        moved == [x |-> penguinPosition.x,
                  y |-> NumMul(bob, Num(50)),
                  z |-> NumAdd(penguinPosition.z, NumMul(effectiveMoveSpeed, Num(dt)))]
        stride == NumGreater(NumSub(phase, lastStepTime), Num(PiMilli))
        footPos == [moved EXCEPT !.x = NumAdd(@, Num(IF isLeftStep THEN -200 ELSE 200))]
        st == IF body /\ moving /\ stride
              THEN SpawnInto(decayed, Coordinates(footPos), isLeftStep)
              ELSE decayed
    IN /\ footprints' = st.footprints
       /\ material' = st.material
       /\ scene' = st.scene
       /\ nextId' = st.nextId
       /\ UNCHANGED <<footprintTexture, footprintNormal, body>>
       /\ IF ~body \/ ~moving
          THEN UNCHANGED <<walkTime, lastStepTime, isLeftStep, penguinPosition>>
          ELSE /\ walkTime' = phase
               /\ penguinPosition' = moved
               /\ lastStepTime' = IF stride THEN phase ELSE lastStepTime
               /\ isLeftStep' = IF stride THEN ~isLeftStep ELSE isLeftStep

\* ColonyPenguin.setOpacity(NaN): NaN > 0.01 is false
SetOpacityNaN(p) == [p EXCEPT !.opacity = NaN, !.visible = FALSE]

\* ColonyManager.update(dt, playerPos) for a position of numbers: with a NaN
\* coordinate the distance, the smoothstep and the opacity are NaN
ColonyUpdateAt(dt, playerPos, draws) ==
    IF playerPos.x.nan \/ playerPos.y.nan \/ playerPos.z.nan
    THEN LET after == UpdateFrom(Colony, 1, Len(penguins), dt, draws)
             moved == after.penguins
         IN /\ penguins' = [i \in 1..Len(moved) |-> SetOpacityNaN(moved[i])]
            /\ managerColonyCenter' = after.colonyCenter
            /\ frame' = frame + 1
            /\ lastUpdate' = [dt |-> dt, playerPos |-> playerPos]
    ELSE ColonyUpdate(dt, Coordinates(playerPos), draws)

\* App.animate for a frame of dt: the player, then the colony at the
\* player's position
AppAnimate(dt, draws, r) ==
    /\ PenguinUpdate(dt, inputForward, AudioManagerObject, FALSE)
    /\ audioManager' = AudioUpdated(audioManager, dt, inputForward)
    /\ ColonyUpdateAt(dt, penguinPosition', draws)
    /\ app' = CinematicFrame(app, dt, inputForward, r)
    /\ walked' = IF inputForward /\ body /\ footprintTexture /\ footprintNormal
                 THEN walked + dt ELSE walked
    /\ UNCHANGED inputForward

\* the callback of loader.load('PenguinBaseMesh.fbx') in Penguin
PenguinModelLoaded ==
    /\ ~body
    /\ body' = TRUE
    /\ UNCHANGED <<walkTime, lastStepTime, isLeftStep, penguinPosition, inputForward, walked,
                   audioManager, app>>

\* App.onKeyDown / onTouchStart (pressed) and onKeyUp / onTouchEnd
SetForward(pressed) ==
    LET met == IF pressed THEN HandleInteraction(app, audioManager)
               ELSE [app |-> app, audioManager |-> audioManager]
    IN /\ inputForward' = pressed
       /\ app' = met.app
       /\ audioManager' = met.audioManager
       /\ UNCHANGED <<body, walkTime, lastStepTime, isLeftStep, penguinPosition, walked>>

\* App.onKeyDown for the key C, r the Math.random() of the offset
KeyC(r) ==
    LET met == HandleInteraction(app, audioManager)
    IN /\ app' = TriggerCinematic(met.app, r)
       /\ audioManager' = met.audioManager
       /\ UNCHANGED <<body, walkTime, lastStepTime, isLeftStep, penguinPosition, inputForward, walked>>

AppDts == {100, 500}
AppSpawnDraws == {SpawnDraw(0, 0, 0, 0, 0, 600, 0, 500), SpawnDraw(250, 500, 0, 0, 0, 0, 0, 0)}
AppStateDraws == {StateDraw(600, 0, 500)}

NextApp ==
    \/ \E hasContext \in BOOLEAN :
          FootprintImageLoaded(hasContext) /\ UNCHANGED <<heightVars, colonyVars, pickVars, playerVars>>
    \/ PenguinModelLoaded /\ UNCHANGED <<trailVars, heightVars, colonyVars, pickVars>>
    \/ \E pressed \in BOOLEAN :
          SetForward(pressed) /\ UNCHANGED <<trailVars, heightVars, colonyVars, pickVars>>
    \/ \E spawns \in [1..ColonySize -> AppSpawnDraws] :
          ModelLoaded(spawns) /\ UNCHANGED <<trailVars, heightVars, pickVars, playerVars>>
    \/ \E dt \in AppDts, draws \in [1..ColonySize -> AppStateDraws] :
          /\ frame < MaxFrames
          /\ AppAnimate(dt, draws, [trigger |-> 0, switch |-> 0])
          /\ UNCHANGED <<heightVars, pickVars>>

SpecApp == InitColony /\ [][NextApp]_vars

\* C13: in the running application, once the player has moved, with the
\* model and the textures loaded, for long enough for the walk phase (8 per
\* second) to advance by more than pi, a footprint has been spawned; and a
\* frame in which the player is not moving spawns none
StrideSpawns ==
    /\ [](Mul(walked, 8 * Milli) > PiMilli => nextId > 1)
    /\ [][(IsColonyUpdate /\ ~inputForward) => nextId' = nextId]_vars

----------------------------------------------------------------------------
(* The order of reads and writes within one colony update.                 *)

OrderDts == {500, 1 * Milli}

\* walkers at (2, 0, 0) facing +z and at (2.5, 0, 0) facing -z, and an idle
\* agent at (2.5, 0, 0)
OrderSpawnDraws ==
    {SpawnDraw(0, 0, 0, 0, 0, 600, 999, 500),
     SpawnDraw(0, 125, 999, 999, 500, 600, 999, 500),
     SpawnDraw(0, 125, 999, 999, 500, 0, 0, 0)}
OrderStateDraws == {StateDraw(600, 999, 500)}

NextOrder ==
    \/ \E spawns \in [1..ColonySize -> OrderSpawnDraws] :
          ModelLoaded(spawns) /\ UNCHANGED <<trailVars, heightVars, pickVars, playerVars>>
    \/ \E dt \in OrderDts, playerPos \in PlayerAtOrigin, draws \in [1..ColonySize -> OrderStateDraws] :
          /\ frame < MaxFrames
          /\ ColonyUpdate(dt, playerPos, draws)
          /\ UNCHANGED <<trailVars, heightVars, pickVars, playerVars>>

SpecOrder == InitColony /\ [][NextOrder]_vars

\* C14: in a colony update every agent moves as its own update makes it move
\* from the positions all agents had when the update began
SnapshotReads ==
    [][\A dt \in OrderDts, playerPos \in PlayerAtOrigin, draws \in [1..ColonySize -> OrderStateDraws] :
          ColonyUpdate(dt, playerPos, draws) =>
              \A i \in Agents :
                 LET alone == UpdatePenguin(penguins, i, dt, managerColonyCenter, draws[i])
                 IN penguins'[i].x = alone.x /\ penguins'[i].z = alone.z]_vars

----------------------------------------------------------------------------
(* The update of one agent among the others.                               *)

MaxAgentUpdates == 5
AgentDts == {500, 1 * Milli}

\* a walker at (2, 0, 0), a walker close to it at (2.5, 0, 0), and a walker
\* near radius 6, beyond the distance at which the center pulls
AgentSpawnDraws ==
    {SpawnDraw(0, 0, 0, 0, 0, 600, 999, 500),
     SpawnDraw(0, 125, 999, 999, 500, 600, 999, 500),
     SpawnDraw(500, 999, 0, 999, 750, 849, 999, 500)}
AgentStateDraws == {StateDraw(0, 0, 0), StateDraw(849, 999, 999), StateDraw(850, 0, 250)}

\* penguins[i].update(dt, colonyCenter, penguins), the call of the forEach
\* of ColonyManager.update for one agent
AgentStep(i, dt, d) ==
    LET after == AgentUpdate(Colony, i, dt, d)
    IN /\ penguins' = after.penguins
       /\ managerColonyCenter' = after.colonyCenter
       /\ frame' = frame + 1
       /\ UNCHANGED lastUpdate

NextAgent ==
    \/ \E spawns \in [1..ColonySize -> AgentSpawnDraws] :
          ModelLoaded(spawns) /\ UNCHANGED <<trailVars, heightVars, pickVars, playerVars>>
    \/ \E i \in 1..Len(penguins), dt \in AgentDts, d \in AgentStateDraws :
          /\ frame < MaxAgentUpdates
          /\ AgentStep(i, dt, d)
          /\ UNCHANGED <<trailVars, heightVars, pickVars, playerVars>>

SpecAgent == InitColony /\ [][NextAgent]_vars

\* C15: the update of one agent leaves every field of every other agent as
\* it was, and leaves the colony center, the vector shared by all agents, at
\* the origin
OwnFieldsOnly ==
    [][\A i \in Agents, dt \in AgentDts, d \in AgentStateDraws :
          AgentStep(i, dt, d) =>
              /\ \A j \in Agents \ {i} : penguins'[j] = penguins[j]
              /\ managerColonyCenter' = managerColonyCenter
              /\ managerColonyCenter' = Vec(0, 0, 0)]_vars

\* a walking agent further than 5 from the center has taken a step, pulled
\* by the center, beside an agent that has not been updated yet
OwnFieldsWitness ==
    /\ frame > 0
    /\ \E i \in Agents :
          /\ penguins[i].state = WALKING
          /\ penguins[i].walkTime > 0
          /\ HorizontalDistance(i) > 6 * Milli
          /\ \E j \in Agents \ {i} : penguins[j].timer = 0 /\ penguins[j].walkTime = 0

----------------------------------------------------------------------------
(* The size of the colony.                                                 *)

CountDraws == {0, 500, 999}
CountFamilies == {0, 1}

\* the draws of agent i, spread over their ranges; k varies them
CountSpawnDraw(i, k) ==
    SpawnDraw((i * 67 + k * 13) % Milli, (i * 331) % Milli, (i * 211) % Milli, (i * 503) % Milli,
              (i * 89 + k * 250) % Milli, (i * 173 + k * 400) % Milli, (i * 97) % Milli, (i * 57) % Milli)
CountStateDraw(i, k) ==
    StateDraw((i * 173 + k * 311) % Milli, (i * 97) % Milli, (i * 57 + k * 500) % Milli)

NextCount ==
    \/ \E r \in CountDraws, k \in CountFamilies :
          /\ ModelLoaded([i \in 1..SpawnCount(r) |-> CountSpawnDraw(i, k)])
          /\ UNCHANGED <<trailVars, heightVars, pickVars, playerVars>>
    \/ \E dt \in ColonyDts, playerPos \in PlayerAtOrigin, k \in CountFamilies :
          /\ frame < MaxFrames
          /\ ColonyUpdate(dt, playerPos, [i \in 1..Len(penguins) |-> CountStateDraw(i, k)])
          /\ UNCHANGED <<trailVars, heightVars, pickVars, playerVars>>

SpecCount == InitColony /\ [][NextCount]_vars

----------------------------------------------------------------------------
(* The trail's update as an advance of time.                               *)

----------------------------------------------------------------------------
(* The fade pass of the colony update.                                     *)

\* C18: the fade pass at the end of a colony update changes, of each agent
\* as its own update left it, the opacity and the visible flag only: the
\* position, the facing, the state, the timers and the walk phase are what
\* the agent's update made them, and the agent is visible exactly when its
\* opacity is above 0.01
FadePassFrame ==
    [][\A dt \in FadeDts, playerPos \in FadePositions :
          LET draws == [i \in 1..ColonySize |-> StateDraw(0, 0, 0)]
          IN ColonyUpdate(dt, playerPos, draws) =>
                LET moved == UpdateFrom(Colony, 1, Len(penguins), dt, draws).penguins
                IN /\ Len(penguins') = Len(moved)
                   /\ \A i \in 1..Len(moved) :
                         /\ \A f \in DOMAIN moved[i] \ {"opacity", "visible"} :
                               penguins'[i][f] = moved[i][f]
                         /\ penguins'[i].visible <=> penguins'[i].opacity > 10]_vars

\* a walking agent has moved on, while the passes of the same updates
\* dimmed it and then hid it
FadePassWitness ==
    /\ frame >= 2
    /\ \E i \in Agents :
          /\ penguins[i].state = WALKING
          /\ penguins[i].walkTime > 0
          /\ penguins[i].timer >= 1 * Milli
          /\ penguins[i].opacity = 0
          /\ ~penguins[i].visible

----------------------------------------------------------------------------
(* The height of the agents.                                               *)

\* C19: after the agents' updates of a colony update every agent, in
\* whichever of the four states it is, stands at the height
\* sin(0.1 x) * cos(0.1 z) * 0.5 of the place (x, z) it is now at
GroundPlacement ==
    [][IsColonyUpdate =>
          \A i \in 1..Len(penguins') :
             LET p == penguins'[i]
             IN /\ p.state \in {IDLE, WALKING, TURNING, LOOKING}
                /\ p.y = Mul(Mul(Sin(Mul(p.x, 100)), Cos(Mul(p.z, 100))), 500)]_vars

\* updates have moved a walking agent, in the middle of a stride, to a
\* place that is not at height 0, next to an agent that looks around
GroundPlacementWitness ==
    /\ frame > 0
    /\ \E i, j \in Agents :
          /\ penguins[i].state = WALKING
          /\ penguins[i].walkTime > 0
          /\ Mul(Abs(Cos(penguins[i].walkTime)), 30) > 0
          /\ penguins[i].y # 0
          /\ penguins[j].state = LOOKING
          /\ penguins[j].headTilt # 0
          /\ penguins[j].y # 0

----------------------------------------------------------------------------
(* The bob of a walking agent.                                             *)

\* C20: after the agents' updates of a colony update a walking agent stands
\* above the ground height of its place by the bob |cos(walkTime)| * 0.03
\* of its walk phase
BobKept ==
    [][IsColonyUpdate =>
          \A i \in 1..Len(penguins') :
             LET p == penguins'[i]
             IN p.state = WALKING =>
                   p.y = Mul(Mul(Sin(Mul(p.x, 100)), Cos(Mul(p.z, 100))), 500)
                             + Mul(Abs(Cos(p.walkTime)), 30)]_vars

----------------------------------------------------------------------------
(* The side effects of a transition.                                       *)

\* C21: of an agent, pickNewState changes the state, the duration and the
\* timer and beside them only what the table gives the state entered:
\* Walking sets the target facing to the current facing plus a turn in
\* [-0.75, 0.75], Turning sets it to an angle in [0, 2 pi), Looking sets the
\* head-tilt target to a value in [-0.25, 0.25], Idle sets neither; the
\* position, the current facing, the walk phase and the head tilt stay
TransitionEffects ==
    LET prev == pickArgs.prev
        q == pickResult
        others == DOMAIN prev \ {"state", "stateDuration", "timer", "picked",
                                 "targetRotation", "headTiltTarget"}
    IN /\ \A f \in others : q[f] = prev[f]
       /\ <<q.x, q.y, q.z>> = <<prev.x, prev.y, prev.z>>
       /\ q.currentRotation = prev.currentRotation
       /\ q.walkTime = prev.walkTime
       /\ q.headTilt = prev.headTilt
       /\ q.state = IDLE =>
             q.targetRotation = prev.targetRotation /\ q.headTiltTarget = prev.headTiltTarget
       /\ q.state = WALKING =>
             /\ q.targetRotation - prev.currentRotation \in -750..750
             /\ q.headTiltTarget = prev.headTiltTarget
       /\ q.state = TURNING =>
             /\ q.targetRotation >= 0 /\ q.targetRotation < 2 * PiMilli
             /\ q.headTiltTarget = prev.headTiltTarget
       /\ q.state = LOOKING =>
             /\ q.headTiltTarget \in -250..250
             /\ q.targetRotation = prev.targetRotation

\* an agent that faced pi/2 and had another target was sent Turning, to a
\* target facing just below 2 pi
TransitionWitness ==
    /\ pickArgs.r = 850
    /\ pickArgs.u2 = 999
    /\ pickArgs.prev.targetRotation # pickArgs.prev.currentRotation
    /\ pickResult.state = TURNING
    /\ pickResult.targetRotation > 6 * Milli
    /\ pickResult.currentRotation = pickArgs.prev.currentRotation

----------------------------------------------------------------------------
(* Where an agent's update moves it.                                       *)

\* the rounding of a step: the direction of a step is a unit vector only up
\* to the last digit of the length it was divided by
StepTol == 3

\* C22: an update in which the agent, after the state choice of that
\* update, is Idle, Turning or Looking leaves its x, its z and its walk
\* phase as they were; one in which it is Walking moves it in the ground
\* plane by at most moveSpeed * dt (up to the rounding of a step)
MovesOnlyWalking ==
    [][IsColonyUpdate =>
          \A i \in 1..Len(penguins') :
             LET p == penguins[i]
                 q == penguins'[i]
             IN /\ q.state # WALKING =>
                      /\ q.x = p.x
                      /\ q.z = p.z
                      /\ q.walkTime = p.walkTime
                /\ q.state = WALKING =>
                      Length3(q.x - p.x, 0, q.z - p.z)
                          <= Mul(q.moveSpeed, lastUpdate'.dt) + StepTol]_vars

\* a walking agent is under way, and an agent that is turning toward a
\* target has kept its walk phase of an earlier walk
MovesOnlyWalkingWitness ==
    /\ frame >= 2
    /\ \E i \in Agents :
          /\ penguins[i].state = WALKING
          /\ penguins[i].timer > 0
          /\ penguins[i].walkTime > 0
    /\ \E j \in Agents :
          /\ penguins[j].state = TURNING
          /\ penguins[j].timer > 0
          /\ penguins[j].walkTime > 0
          /\ penguins[j].currentRotation # penguins[j].targetRotation

----------------------------------------------------------------------------
(* The separation force.                                                   *)

\* C23: the separation force on a walking agent is the sum of the pushes of
\* the other agents, never of itself; an agent at a distance of 1 or more
\* pushes with nothing, and one nearer than 1 pushes with a vector that is
\* not zero: the unit vector away from it times 0.5 / (dist + 0.1)
SeparationForce ==
    \A i \in Agents :
       penguins[i].state = WALKING =>
          LET self == Position(penguins[i])
              away(j) == VSub(self, Position(penguins[j]))
              push(j) == Avoidance(penguins, i, j, j)
              others == Agents \ {i}
              RECURSIVE Sum(_)
              Sum(S) == IF S = {} THEN Vec(0, 0, 0)
                        ELSE LET j == CHOOSE k \in S : TRUE
                             IN VAdd(push(j), Sum(S \ {j}))
          IN /\ push(i) = Vec(0, 0, 0)
             /\ Avoidance(penguins, i, 1, Len(penguins)) = Sum(others)
             /\ \A j \in others :
                   /\ VLength(away(j)) >= 1 * Milli => push(j) = Vec(0, 0, 0)
                   /\ VLength(away(j)) < 1 * Milli =>
                         /\ push(j) # Vec(0, 0, 0)
                         /\ push(j) = VScale(Normalize(away(j)),
                                             Div(500 * Milli, VLength(away(j)) + 100))

----------------------------------------------------------------------------
(* The colours of the mountains.                                           *)

\* vertices 625 units apart across the plane of a peak, and values of the
\* noise at them
NextMountain ==
    \E x \in {-625, 0, 625}, y \in {-3750, -625, 0, 625, 3750},
       peak \in {CentralPeak, LeftPeak2},
       n \in [n1 : {0, 900, 1500}, n2 : {0, 1000}, ridge : {0, 500}] :
        /\ Abs(x) <= (5000 * peak.scale) \div Milli
        /\ Abs(y) <= (5000 * peak.scale) \div Milli
        /\ SampleMountain(x, y, peak, n)
        /\ UNCHANGED <<trailVars, colonyVars, pickVars, playerVars>>

SpecMountain == InitHeight /\ [][NextMountain]_vars

\* C24: the snow mix of a mountain vertex is the smoothstep between
\* 50 * heightScale and 500 * heightScale of the vertex's elevation plus its
\* noise times 250 * heightScale, and of two vertices of a peak with the same
\* noise the higher one is at least as snowy
SnowByElevation ==
    /\ [](LET v == mountainVertex
              t == v.z * Milli + Mul(v.noiseVal, 250 * v.peak.heightScale)
              lo == 50 * v.peak.heightScale
              hi == 500 * v.peak.heightScale
              c == IF t < lo THEN 0 ELSE IF t > hi THEN Milli
                   ELSE Div((t - lo) * Milli, hi - lo)
          IN v.mixVal = Mul(Mul(c, c), 3 * Milli - 2 * c))
    /\ [][(/\ mountainVertex'.peak = mountainVertex.peak
           /\ mountainVertex'.noiseVal = mountainVertex.noiseVal
           /\ mountainVertex'.z >= mountainVertex.z)
          => mountainVertex'.mixVal >= mountainVertex.mixVal]_vars

----------------------------------------------------------------------------
(* The timer of an agent.                                                  *)

\* C25: from its construction on and after every colony update, every agent
\* has a state duration of at least 1 and an elapsed time of at least 0 and
\* below the state duration
TimerInRange ==
    \A i \in Agents :
       /\ penguins[i].stateDuration >= 1 * Milli
       /\ penguins[i].timer >= 0
       /\ penguins[i].timer < penguins[i].stateDuration

\* an update has sent one agent to a state of the shortest duration there
\* is, and another agent is half way through such a state
TimerInRangeWitness ==
    /\ frame >= 2
    /\ \E i, j \in Agents :
          /\ penguins[i].picked
          /\ penguins[i].timer = 0
          /\ penguins[i].stateDuration = 1 * Milli
          /\ ~penguins[j].picked
          /\ penguins[j].stateDuration = 1 * Milli
          /\ penguins[j].timer = 500

----------------------------------------------------------------------------
(* The order of the opacities along the trail.                             *)

\* C26: along the trail, from the oldest footprint to the newest, the
\* opacities never decrease and the footprints are consecutive ones of the
\* spawn sequence; so no step takes a footprint out while it leaves an
\* older one in: what is removed is a front part of the trail
OldestFadesFirst ==
    /\ [](\A i \in 1..(Len(footprints) - 1) :
             /\ material[footprints[i]].opacity <= material[footprints[i + 1]].opacity
             /\ footprints[i + 1] = footprints[i] + 1)
    /\ [][\/ footprints = <<>>
          \/ footprints' = <<>>
          \/ footprints'[Len(footprints')] >= footprints[Len(footprints)]]_vars

\* a decay has removed the oldest footprints and left two younger ones, the
\* older of which is fainter than the newer
OldestFadesFirstWitness ==
    /\ Len(footprints) = 2
    /\ \A fp \in 1..(footprints[1] - 1) : RemovedByAge(fp)
    /\ footprints[1] > 1
    /\ material[footprints[1]].opacity < material[footprints[2]].opacity
    /\ material[footprints[2]].opacity < Milli

----------------------------------------------------------------------------
(* The feet of the trail: Penguin.update called with a number for the      *)
(* speed multiplier.                                                       *)

\* the Penguin, model and textures loaded, after TrailStart frames of 0.2 s
\* walked at twice the speed: every frame made a stride, and every footprint
\* has faded by 0.004 in each frame since its own
WalkedIn ==
    /\ footprints = [i \in 1..TrailStart |-> i]
    /\ material = [i \in 1..TrailStart |->
                      [NewFootprint(Vec(IF i % 2 = 1 THEN -200 ELSE 200, 0, i * 800), i % 2 = 1)
                          EXCEPT !.opacity = Milli - 4 * (TrailStart - i)]]
    /\ scene = 1..TrailStart
    /\ nextId = TrailStart + 1
    /\ footprintTexture = TRUE
    /\ footprintNormal = TRUE
    /\ body = TRUE
    /\ walkTime = Num(TrailStart * 3200)
    /\ lastStepTime = Num(TrailStart * 3200)
    /\ isLeftStep = (TrailStart % 2 = 0)
    /\ penguinPosition = [x |-> Num(0),
                          y |-> NumMul(NumAbsCos(Num(TrailStart * 3200)), Num(50)),
                          z |-> Num(TrailStart * 800)]
    /\ inputForward = TRUE
    /\ walked = 0

\* the walk phase, counted from the start, up to which frames are taken
MaxWalkTime == 10000

InitWalk ==
    /\ (PenguinConstructed /\ PlayerConstructed) \/ WalkedIn
    /\ NoSample /\ ColonyConstructed /\ NoPick /\ AppConstructed

\* the loads, and frames at the speed multipliers 1 and 2: of 0.2 s or 30 s
\* walking, and of 30 s standing
NextWalk ==
    \/ \E hasContext \in BOOLEAN :
          FootprintImageLoaded(hasContext) /\ UNCHANGED <<heightVars, colonyVars, pickVars, playerVars>>
    \/ PenguinModelLoaded /\ UNCHANGED <<trailVars, heightVars, colonyVars, pickVars>>
    \/ \E dt \in {200, 30 * Milli}, moving \in BOOLEAN, speedMultiplier \in {Num(1 * Milli), Num(2 * Milli)} :
          /\ moving \/ dt = 30 * Milli
          /\ CanSpawn
          /\ \/ walkTime.v <= MaxWalkTime
             \/ walkTime.v - TrailStart * 3200 \in 0..MaxWalkTime
          /\ PenguinUpdate(dt, moving, speedMultiplier, FALSE)
          /\ UNCHANGED <<inputForward, walked, audioManager, app, heightVars, colonyVars, pickVars>>

SpecWalk == InitWalk /\ [][NextWalk]_vars

\* C27: any two footprints next to each other in the trail are of opposite
\* feet: one is turned by +0.2 and the other by -0.2
FeetAlternate ==
    \A i \in 1..(Len(footprints) - 1) :
       {material[footprints[i]].rotZ, material[footprints[i + 1]].rotZ}
           = {PiMilli + 200, PiMilli - 200}

\* an odd number of strides was made before the footprint image had loaded,
\* so that the trail began with a right foot; its first footprint has faded
\* out since, and two later ones are in the trail
FeetAlternateWitness ==
    /\ nextId = 4
    /\ material[1].rotZ = PiMilli - 200
    /\ RemovedByAge(1)
    /\ Len(footprints) = 2

----------------------------------------------------------------------------
(* The AudioManager alone, under any sequence of resume and update calls.   *)

MaxAudioTime == 20000
AudioDts == {500, 1 * Milli, 4 * Milli, 10 * Milli}

NextAudio ==
    \/ /\ audioManager' = Resumed(audioManager)
       /\ UNCHANGED <<trailVars, heightVars, colonyVars, pickVars, body, walkTime, lastStepTime,
                      isLeftStep, penguinPosition, inputForward, walked, app>>
    \/ \E dt \in AudioDts, isWalking \in BOOLEAN :
          /\ audioManager.heard + dt <= MaxAudioTime
          /\ audioManager.sinceMusic + dt <= MaxAudioTime
          /\ audioManager' = AudioUpdated(audioManager, dt, isWalking)
          /\ UNCHANGED <<trailVars, heightVars, colonyVars, pickVars, body, walkTime, lastStepTime,
                         isLeftStep, penguinPosition, inputForward, walked, app>>

SpecAudio == InitColony /\ [][NextAudio]_vars

\* C28: nothing is played while audio is not enabled; the music has been
\* started only if update calls with isWalking, made while enabled, add up to
\* at least 10 s; the narration has been started only if the music has and
\* the update calls made after the one that started the music add up to at
\* least 4 s; and each of the two has been started at most once
AudioSequence ==
    /\ ~audioManager.isEnabled => audioManager.musicPlays = 0 /\ audioManager.narrationPlays = 0
    /\ audioManager.musicPlays > 0 => audioManager.heard >= 10 * Milli
    /\ audioManager.narrationPlays > 0 =>
           audioManager.musicPlays > 0 /\ audioManager.sinceMusic >= 4 * Milli
    /\ audioManager.musicPlays <= 1 /\ audioManager.narrationPlays <= 1

----------------------------------------------------------------------------
(* The App with an empty colony: the forward key, the key C and frames.     *)

MaxCinemaFrames == 6
MaxTriggers == 3
CinemaDts == {2 * Milli, 5 * Milli, 13 * Milli}

NextCinema ==
    \/ \E pressed \in BOOLEAN :
          SetForward(pressed) /\ UNCHANGED <<trailVars, heightVars, colonyVars, pickVars>>
    \/ \E r \in {0, 500} :
          /\ app.entered + app.ignored < MaxTriggers
          /\ KeyC(r)
          /\ UNCHANGED <<trailVars, heightVars, colonyVars, pickVars>>
    \/ \E dt \in CinemaDts, trigger \in {0, 500}, switch \in {0, 500} :
          /\ frame < MaxCinemaFrames
          /\ AppAnimate(dt, [i \in 1..ColonySize |-> StateDraw(600, 0, 500)],
                        [trigger |-> trigger, switch |-> switch])
          /\ UNCHANGED <<heightVars, pickVars>>

SpecCinema == InitColony /\ [][NextCinema]_vars

====
